---- MODULE Spec2Model ----
(***************************************************************************)
(* A model of akashic-tile-ex: TileEx (a cached tile map entity), its      *)
(* per-cell cursor TileExRenderer, and the ChipSet / WolfAutoTileChipSet   *)
(* blitters.  Coordinates are 0-based as in the source; TLA+ sequences are *)
(* 1-based, so cell (x, y) of a grid g is g[y + 1][x + 1].                 *)
(***************************************************************************)
EXTENDS Integers, Sequences, FiniteSets, TLC

VARIABLES
    tileData,        \* TileEx.tileData: rows of cells, or Undefined after destroy
    chipSets,        \* TileEx.chipSets: references to ChipSet objects, or Undefined
    chipSetObjs,     \* the ChipSet objects
    images,          \* the g.Surface objects the ChipSets draw from
    drawnTileData,   \* TileEx._drawnTileData: the shadow array, or Undefined
    redrawArea,      \* TileEx.redrawArea: NoArea or [x, y, width, height]
    width,           \* E.width, in half pixels (see Half)
    height,          \* E.height, in half pixels
    cached,          \* state & EntityStateFlags.Cached
    renderedCamera,  \* CacheableE._renderedCamera
    cache,           \* CacheableE._cache: NoCache or the surface with its pixels
    pass,            \* what the last call of renderSelf did (observation)
    rendered,        \* tileData as the last completed pass saw it (observation)
    destroyedWith,   \* the argument TileEx.destroy was called with (observation)
    lastWrite,       \* the last write to tileData (observation)
    writes           \* how many writes to tileData were made (bounded)

vars == <<tileData, chipSets, chipSetObjs, images, drawnTileData, redrawArea,
          width, height, cached, renderedCamera, cache, pass, rendered,
          destroyedWith, lastWrite, writes>>

----------------------------------------------------------------------------
(* Values *)

\* undefined, for a field that holds an array.
Undefined == <<>>
\* redrawArea left undefined.
NoArea == [set |-> FALSE, x |-> 0, y |-> 0, width |-> 0, height |-> 0]
\* _cache not yet created.
NoCache == [exists |-> FALSE, width |-> 0, height |-> 0, pixels |-> <<>>]
\* A null entry of tileData.
NullCell == <<>>
\* The shadow entry [-1, -1]: nothing drawn at this cell.
NotDrawn == <<0 - 1, 0 - 1>>
\* No write to tileData yet.
NoWrite == [x |-> 0 - 1, y |-> 0 - 1, old |-> <<>>, new |-> <<>>]
\* A transparent pixel.
Blank == <<>>

\* tileWidth and tileHeight of the TileExParameterObject.
tileWidth == 2
tileHeight == 2

\* E.width and E.height are numbers, not integers: the model counts them in
\* units of 1 / Half pixel so that Math.ceil has something to round.
Half == 2

\* The least and the largest value, in half pixels, given to width or height.
MinSide == Half + 1
MaxSide == 9
\* The largest chip index a cell is given.
MaxChip == 1
\* The number of writes to tileData in one behaviour.
MaxWrites == 2
\* The number of calls of setChipWithNear in one behaviour.
MaxNearWrites == 1
\* The longest row of the grids of auto-tiles of every shape.
MaxRowLen == 2
\* The widest chip image, the largest side of a chip and the largest chip
\* index of the maps over chip images of every size.
MaxSheetWidth == 5
MaxChipSide == 3
MaxSheetChip == 3

----------------------------------------------------------------------------
(* g.Surface / g.Renderer *)

\* Math.floor in the place of Math.ceil.
Ceil_RoundsDown(w) == w \div Half

\* Math.ceil of a length given in half pixels, in pixels.
Ceil(w) == (w + Half - 1) \div Half

Pixels(w, h) == (0 .. w - 1) \X (0 .. h - 1)

\* resourceFactory.createSurface(w, h): a transparent surface.
createSurface(w, h) ==
    [exists |-> TRUE, width |-> w, height |-> h,
     pixels |-> [p \in Pixels(w, h) |-> Blank]]

\* Renderer.clear(): erases the whole target.
clear(px) == [p \in DOMAIN px |-> Blank]

\* Renderer.drawImage(src, sx, sy, w, h, dx, dy) under "source-over": the
\* pixels of the destination rectangle that lie on the target take the
\* source pixel <<src, sx + i, sy + j>>.
drawImage(px, b) ==
    [p \in DOMAIN px |->
        IF /\ b.dx <= p[1] /\ p[1] < b.dx + b.w
           /\ b.dy <= p[2] /\ p[2] < b.dy + b.h
        THEN <<b.src, b.sx + (p[1] - b.dx), b.sy + (p[2] - b.dy)>>
        ELSE px[p]]

----------------------------------------------------------------------------
(* ChipSet *)

\* _chipsInRow rounded up.
ChipsInRow_RoundsUp(imageWidth, chipWidth) == (imageWidth + chipWidth - 1) \div chipWidth

\* ChipSet.invalidate(): _chipsInRow.
ChipsInRow(imageWidth, chipWidth) == imageWidth \div chipWidth

\* ChipSet.render with the row and the column of the chip exchanged.
ChipSetRender_RowColumnSwapped(cs, r) ==
    << [src |-> cs.chips,
        sx  |-> cs.chipWidth * (r.chipIndex \div cs.chipsInRow),
        sy  |-> cs.chipHeight * (r.chipIndex % cs.chipsInRow),
        w   |-> cs.chipWidth,
        h   |-> cs.chipHeight,
        dx  |-> r.dx,
        dy  |-> r.dy] >>

\* ChipSet.render(tileRenderer): the one drawImage it issues.
ChipSetRender(cs, r) ==
    << [src |-> cs.chips,
        sx  |-> cs.chipWidth * (r.chipIndex % cs.chipsInRow),
        sy  |-> cs.chipHeight * (r.chipIndex \div cs.chipsInRow),
        w   |-> cs.chipWidth,
        h   |-> cs.chipHeight,
        dx  |-> r.dx,
        dy  |-> r.dy] >>

\* ChipSet.destroyed()
destroyed(cs) == cs.chips = 0

\* getChip taking the last cell of the row for an x beyond its end.
getChip_ClampsToRow(td, x, y) ==
    IF x < 0 \/ y < 0 THEN NullCell
    ELSE IF y >= Len(td) THEN NullCell
    ELSE IF x >= Len(td[y + 1]) THEN td[y + 1][Len(td[y + 1])]
    ELSE td[y + 1][x + 1]

\* TileExRenderer.getChip(x, y)
getChip(td, x, y) ==
    IF x < 0 \/ y < 0 THEN NullCell
    ELSE IF y >= Len(td) THEN NullCell
    ELSE IF x >= Len(td[y + 1]) THEN NullCell
    ELSE td[y + 1][x + 1]

\* The test of a neighbour without the one of its chip index.
Connected_AnyChip(near, chipSetIndex) ==
    /\ near # NullCell
    /\ near[1] = chipSetIndex

\* The test WolfAutoTileChipSet.render makes of each of the three neighbours.
Connected(near, chipSetIndex) ==
    /\ near # NullCell
    /\ near[1] = chipSetIndex
    /\ near[2] >= 0

\* The offset with 1 added for a connected diagonal neighbour in any case.
WolfOffset_DiagonalAlways(td, r, i, j) ==
    LET nx == r.x + (IF i = 0 THEN 0 - 1 ELSE 1)
        ny == r.y + (IF j = 0 THEN 0 - 1 ELSE 1)
        o1 == IF Connected(getChip(td, r.x, ny), r.chipSetIndex) THEN 1 ELSE 0
        o2 == o1 + (IF Connected(getChip(td, nx, r.y), r.chipSetIndex) THEN 2 ELSE 0)
    IN  IF Connected(getChip(td, nx, ny), r.chipSetIndex)
        THEN o2 + 1 ELSE o2

\* The offset WolfAutoTileChipSet.render computes for quadrant (i, j).
WolfOffset(td, r, i, j) ==
    LET nx == r.x + (IF i = 0 THEN 0 - 1 ELSE 1)
        ny == r.y + (IF j = 0 THEN 0 - 1 ELSE 1)
        o1 == IF Connected(getChip(td, r.x, ny), r.chipSetIndex) THEN 1 ELSE 0
        o2 == o1 + (IF Connected(getChip(td, nx, r.y), r.chipSetIndex) THEN 2 ELSE 0)
    IN  IF Connected(getChip(td, nx, ny), r.chipSetIndex) /\ o2 = 3
        THEN o2 + 1 ELSE o2

\* The drawImage WolfAutoTileChipSet.render issues for quadrant (i, j).
WolfQuadrant(cs, td, r, i, j) ==
    LET tw2 == cs.chipWidth \div 2
        th2 == cs.chipHeight \div 2
        offset == WolfOffset(td, r, i, j)
    IN  [src |-> cs.chips,
         sx  |-> cs.chipWidth * ((r.chipIndex + offset) \div 5) + i * tw2,
         sy  |-> cs.chipHeight * ((r.chipIndex + offset) % 5) + j * th2,
         w   |-> tw2,
         h   |-> th2,
         dx  |-> r.dx + i * tw2,
         dy  |-> r.dy + j * th2]

\* WolfAutoTileChipSet.render(tileRenderer): i is the outer loop, j the inner.
WolfRender(cs, td, r) ==
    << WolfQuadrant(cs, td, r, 0, 0), WolfQuadrant(cs, td, r, 0, 1),
       WolfQuadrant(cs, td, r, 1, 0), WolfQuadrant(cs, td, r, 1, 1) >>

\* chipSet.render(this): dispatch on the class of the ChipSet.
Blits(cs, td, r) ==
    IF cs.kind = "wolf" THEN WolfRender(cs, td, r) ELSE ChipSetRender(cs, r)

----------------------------------------------------------------------------
(* TileExRenderer *)

\* new TileExRenderer(tile, renderer, drawnTileData): the cursor fields.
NewCursor ==
    [x |-> 0 - 1, y |-> 0 - 1, dx |-> 0 - 1, dy |-> 0 - 1,
     chipSetIndex |-> 0 - 1, chipIndex |-> 0 - 1]

\* The dirty check comparing the shadow entry, a pair, with the chip index
\* alone: never equal.
SameAsDrawn_PairWithNumber(drawn, x, y, chipSetIndex, chipIndex) ==
    /\ y < Len(drawn)
    /\ drawn[y + 1][x + 1] = <<chipIndex>>

\* The dirty check comparing the chip index only.
SameAsDrawn_ChipOnly(drawn, x, y, chipSetIndex, chipIndex) ==
    /\ y < Len(drawn)
    /\ drawn[y + 1][x + 1][2] = chipIndex

\* The dirty check of TileExRenderer.render: TRUE when the cell is skipped.
SameAsDrawn(drawn, x, y, chipSetIndex, chipIndex) ==
    /\ y < Len(drawn)
    /\ drawn[y + 1][x + 1][1] = chipSetIndex
    /\ drawn[y + 1][x + 1][2] = chipIndex

\* The destination left-aligned with the cell whatever the chip size.
DestX_LeftAligned(cs, x) == tileWidth * x

\* The destination of a cell: tileWidth * x, moved left and up by the
\* difference of the chip size and the tile size.
DestX(cs, x) ==
    IF cs.chipWidth # tileWidth \/ cs.chipHeight # tileHeight
    THEN tileWidth * x - (cs.chipWidth - tileWidth)
    ELSE tileWidth * x

DestY(cs, y) ==
    IF cs.chipWidth # tileWidth \/ cs.chipHeight # tileHeight
    THEN tileHeight * y - (cs.chipHeight - tileHeight)
    ELSE tileHeight * y

\* The clip test of TileExRenderer.render: TRUE when the cell is skipped.
OutsideRedrawArea(area, cs, dx, dy) ==
    /\ area.set
    /\ \/ dx + cs.chipWidth < area.x
       \/ dx >= area.x + area.width
       \/ dy + cs.chipHeight < area.y
       \/ dy >= area.y + area.height

\* One entry of the log of a pass: what render(x, y) returned and drew.
Outcome(x, y, ret, blits) == [x |-> x, y |-> y, ret |-> ret, blits |-> blits]

RECURSIVE DrawAll(_, _)
DrawAll(px, blits) ==
    IF blits = <<>> THEN px
    ELSE DrawAll(drawImage(px, Head(blits)), Tail(blits))

\* render taking a chipSetIndex with no ChipSet for a cell to skip.
render_UnknownChipSetSkipped(t, st, x, y) ==
    LET tile == t.tileData[y + 1][x + 1]
        r1 == [st.r EXCEPT !.x = x, !.y = y]
        done(r, ret) ==
            [st EXCEPT !.r = r, !.log = Append(@, Outcome(x, y, ret, <<>>))]
    IN
    IF tile = NullCell THEN done(r1, "false")
    ELSE
    LET r2 == [r1 EXCEPT !.chipSetIndex = tile[1]] IN
    IF r2.chipSetIndex < 0 THEN done(r2, "false")
    ELSE IF r2.chipSetIndex >= Len(t.chipSets) THEN done(r2, "false")
    ELSE
    LET chipSet == t.chipSets[r2.chipSetIndex + 1]
        r3 == [r2 EXCEPT !.chipIndex = tile[2]]
    IN
    IF r3.chipIndex < 0 THEN done(r3, "false")
    ELSE IF SameAsDrawn(st.drawn, x, y, r3.chipSetIndex, r3.chipIndex)
    THEN done(r3, "false")
    ELSE
    LET dx == DestX(chipSet, x)
        dy == DestY(chipSet, y)
    IN
    IF OutsideRedrawArea(t.redrawArea, chipSet, dx, dy) THEN done(r3, "false")
    ELSE
    LET r4 == [r3 EXCEPT !.dx = dx, !.dy = dy]
        blits == Blits(chipSet, t.tileData, r4)
    IN  [r      |-> r4,
         drawn  |-> [st.drawn EXCEPT ![y + 1][x + 1] = <<tile[1], tile[2]>>],
         pixels |-> DrawAll(st.pixels, blits),
         log    |-> Append(st.log, Outcome(x, y, "true", blits))]

\* render of the older TileExRenderer: a negative chipSetIndex throws.
render_NegativeChipSetThrows(t, st, x, y) ==
    LET tile == t.tileData[y + 1][x + 1]
        r1 == [st.r EXCEPT !.x = x, !.y = y]
        done(r, ret) ==
            [st EXCEPT !.r = r, !.log = Append(@, Outcome(x, y, ret, <<>>))]
    IN
    IF tile = NullCell THEN done(r1, "false")
    ELSE
    LET r2 == [r1 EXCEPT !.chipSetIndex = tile[1]] IN
    IF r2.chipSetIndex < 0 THEN done(r2, "throw")
    ELSE IF r2.chipSetIndex >= Len(t.chipSets) THEN done(r2, "throw")
    ELSE
    LET chipSet == t.chipSets[r2.chipSetIndex + 1]
        r3 == [r2 EXCEPT !.chipIndex = tile[2]]
    IN
    IF r3.chipIndex < 0 THEN done(r3, "false")
    ELSE IF SameAsDrawn(st.drawn, x, y, r3.chipSetIndex, r3.chipIndex)
    THEN done(r3, "false")
    ELSE
    LET dx == DestX(chipSet, x)
        dy == DestY(chipSet, y)
    IN
    IF OutsideRedrawArea(t.redrawArea, chipSet, dx, dy) THEN done(r3, "false")
    ELSE
    LET r4 == [r3 EXCEPT !.dx = dx, !.dy = dy]
        blits == Blits(chipSet, t.tileData, r4)
    IN  [r      |-> r4,
         drawn  |-> [st.drawn EXCEPT ![y + 1][x + 1] = <<tile[1], tile[2]>>],
         pixels |-> DrawAll(st.pixels, blits),
         log    |-> Append(st.log, Outcome(x, y, "true", blits))]

\* TileExRenderer.render(x, y).  t is the TileEx (tileData, chipSets,
\* redrawArea); st holds the cursor r, the shadow array, the pixels of the
\* target and the log of calls.  ret is "true", "false" or "throw".
render(t, st, x, y) ==
    LET tile == t.tileData[y + 1][x + 1]
        r1 == [st.r EXCEPT !.x = x, !.y = y]
        done(r, ret) ==
            [st EXCEPT !.r = r, !.log = Append(@, Outcome(x, y, ret, <<>>))]
    IN
    IF tile = NullCell THEN done(r1, "false")
    ELSE
    LET r2 == [r1 EXCEPT !.chipSetIndex = tile[1]] IN
    IF r2.chipSetIndex < 0 THEN done(r2, "false")
    ELSE IF r2.chipSetIndex >= Len(t.chipSets) THEN done(r2, "throw")
    ELSE
    LET chipSet == t.chipSets[r2.chipSetIndex + 1]
        r3 == [r2 EXCEPT !.chipIndex = tile[2]]
    IN
    IF r3.chipIndex < 0 THEN done(r3, "false")
    ELSE IF SameAsDrawn(st.drawn, x, y, r3.chipSetIndex, r3.chipIndex)
    THEN done(r3, "false")
    ELSE
    LET dx == DestX(chipSet, x)
        dy == DestY(chipSet, y)
    IN
    IF OutsideRedrawArea(t.redrawArea, chipSet, dx, dy) THEN done(r3, "false")
    ELSE
    LET r4 == [r3 EXCEPT !.dx = dx, !.dy = dy]
        blits == Blits(chipSet, t.tileData, r4)
    IN  [r      |-> r4,
         drawn  |-> [st.drawn EXCEPT ![y + 1][x + 1] = <<tile[1], tile[2]>>],
         pixels |-> DrawAll(st.pixels, blits),
         log    |-> Append(st.log, Outcome(x, y, "true", blits))]

----------------------------------------------------------------------------
(* TileEx *)

\* The cells of a grid in the order of the loops of renderCache: rows from
\* the top, each row from the left.
RowCoords(td, y) == [i \in 1 .. Len(td[y + 1]) |-> <<i - 1, y>>]

RECURSIVE CoordsFrom(_, _)
CoordsFrom(td, y) ==
    IF y >= Len(td) THEN <<>> ELSE RowCoords(td, y) \o CoordsFrom(td, y + 1)

Coords(td) == CoordsFrom(td, 0)

\* The loops of renderCache going on after a throw.
RECURSIVE RenderFrom_GoesOn(_, _, _, _)
RenderFrom_GoesOn(t, st, coords, i) ==
    IF i > Len(coords) THEN st
    ELSE RenderFrom_GoesOn(t, render(t, st, coords[i][1], coords[i][2]),
                           coords, i + 1)

\* The loops of renderCache from the i-th cell on; a throw ends the pass.
RECURSIVE RenderFrom(_, _, _, _)
RenderFrom(t, st, coords, i) ==
    IF i > Len(coords) THEN st
    ELSE LET st1 == render(t, st, coords[i][1], coords[i][2]) IN
         IF st1.log[Len(st1.log)].ret = "throw" THEN st1
         ELSE RenderFrom(t, st1, coords, i + 1)

\* TileEx.renderCache(renderer): save, clear, source-over, a new
\* TileExRenderer over _drawnTileData, every cell, restore.
renderCache(t, drawn, pixels) ==
    RenderFrom(t,
               [r |-> NewCursor, drawn |-> drawn, pixels |-> clear(pixels),
                log |-> <<>>],
               Coords(t.tileData), 1)

\* The shadow array renderSelf builds for a new cache: [-1, -1] for every
\* cell of every row of tileData.
FreshDrawn(td) == [y \in 1 .. Len(td) |-> [x \in 1 .. Len(td[y]) |-> NotDrawn]]

\* isNew of renderSelf.
IsNew(c, w, h) == ~c.exists \/ c.width < Ceil(w) \/ c.height < Ceil(h)

Threw(log) == log # <<>> /\ log[Len(log)].ret = "throw"

\* The drawImage calls of a pass, in order.
RECURSIVE BlitsOf(_)
BlitsOf(log) ==
    IF log = <<>> THEN <<>> ELSE Head(log).blits \o BlitsOf(Tail(log))

\* The observation of a call of renderSelf that ran no pass.
NoPass ==
    [ran |-> FALSE, isNew |-> FALSE, cameraChanged |-> FALSE, threw |-> FALSE,
     destroyCalls |-> 0, created |-> <<0, 0>>, drawnAtStart |-> Undefined,
     log |-> <<>>]

\* The ChipSet objects a list of references refers to.
Deref(refs, objs) == [i \in 1 .. Len(refs) |-> objs[refs[i]]]

\* The ChipSet objects chipSets refers to.
ChipSetList == Deref(chipSets, chipSetObjs)

Self == [tileData |-> tileData, chipSets |-> ChipSetList, redrawArea |-> redrawArea]

\* TileEx.renderSelf(renderer, camera)
renderSelf(camera) ==
    /\ tileData # Undefined
    /\ \A i \in 1 .. Len(chipSets) : ~destroyed(chipSetObjs[chipSets[i]])
    /\ LET cameraChanged == renderedCamera # camera
           cached1 == cached /\ ~cameraChanged
       IN
       /\ renderedCamera' = camera
       /\ IF cached1
          THEN /\ pass' = NoPass
               /\ UNCHANGED <<drawnTileData, cache, cached, rendered>>
          ELSE LET isNew == IsNew(cache, width, height)
                   cache1 == IF isNew
                             THEN createSurface(Ceil(width), Ceil(height))
                             ELSE cache
                   drawn1 == IF isNew THEN FreshDrawn(tileData)
                             ELSE drawnTileData
                   st == renderCache(Self, drawn1, cache1.pixels)
               IN  /\ cache' = [cache1 EXCEPT !.pixels = st.pixels]
                   /\ drawnTileData' = st.drawn
                   /\ cached' = ~Threw(st.log)
                   /\ rendered' = IF Threw(st.log) THEN rendered ELSE tileData
                   /\ pass' =
                        [ran |-> TRUE, isNew |-> isNew,
                         cameraChanged |-> cameraChanged,
                         threw |-> Threw(st.log),
                         destroyCalls |-> IF isNew /\ cache.exists THEN 1 ELSE 0,
                         created |-> IF isNew
                                     THEN <<cache1.width, cache1.height>>
                                     ELSE <<0, 0>>,
                         drawnAtStart |-> IF isNew THEN drawn1 ELSE Undefined,
                         log |-> st.log]
    /\ UNCHANGED <<tileData, chipSets, chipSetObjs, images, redrawArea, width,
                   height, destroyedWith, lastWrite, writes>>

\* E.invalidate(): the next renderSelf runs renderCache again.
invalidate ==
    /\ tileData # Undefined
    /\ cached
    /\ cached' = FALSE
    /\ UNCHANGED <<tileData, chipSets, chipSetObjs, images, drawnTileData,
                   redrawArea, width, height, renderedCamera, cache, pass,
                   rendered, destroyedWith, lastWrite, writes>>

\* A write to one cell of the public field tileData, followed by the
\* invalidate() its documentation asks for.
Write(x, y, cell) ==
    /\ tileData # Undefined
    /\ tileData[y + 1][x + 1] # NullCell
    /\ tileData[y + 1][x + 1] # cell
    /\ tileData' = [tileData EXCEPT ![y + 1][x + 1] = cell]
    /\ lastWrite' = [x |-> x, y |-> y, old |-> tileData[y + 1][x + 1], new |-> cell]
    /\ writes' = writes + 1
    /\ cached' = FALSE
    /\ UNCHANGED <<chipSets, chipSetObjs, images, redrawArea, width, height,
                   renderedCamera, cache, pass, rendered, destroyedWith>>

\* A write that leaves the shadow array alone.
WriteCell(x, y, cell) ==
    /\ writes < MaxWrites
    /\ Write(x, y, cell)
    /\ UNCHANGED drawnTileData

\* tileData[y][x][1] = chipIndex
CellsOf(td) == {Coords(td)[i] : i \in 1 .. Len(Coords(td))}

\* tileData[y][x][1] = chipIndex
setChip ==
    \E xy \in CellsOf(tileData), chipIndex \in (0 - 1) .. MaxChip :
        /\ getChip(tileData, xy[1], xy[2]) # NullCell
        /\ WriteCell(xy[1], xy[2],
                     <<getChip(tileData, xy[1], xy[2])[1], chipIndex>>)

\* tileData[y][x][0] = chipSetIndex; Len(chipSets) is an index with no ChipSet.
setChipSet ==
    \E xy \in CellsOf(tileData), chipSetIndex \in (0 - 1) .. Len(chipSets) :
        /\ getChip(tileData, xy[1], xy[2]) # NullCell
        /\ WriteCell(xy[1], xy[2],
                     <<chipSetIndex, getChip(tileData, xy[1], xy[2])[2]>>)

\* A new value of E.width or E.height, followed by invalidate().
resize ==
    \E w \in MinSide .. MaxSide, h \in MinSide .. MaxSide :
        /\ tileData # Undefined
        /\ <<w, h>> # <<width, height>>
        /\ w = width \/ h = height
        /\ width' = w
        /\ height' = h
        /\ cached' = FALSE
        /\ UNCHANGED <<tileData, chipSets, chipSetObjs, images, drawnTileData,
                       redrawArea, renderedCamera, cache, pass, rendered,
                       destroyedWith, lastWrite, writes>>

\* The cells next to (x, y), and (x, y) itself.
Near(x, y) == {<<x + i, y + j>> : i \in {0 - 1, 0, 1}, j \in {0 - 1, 0, 1}}

\* setChipWithNear(x, y, chipIndex): the chip index of the cell is written
\* and the shadow entries of the cell and of its 8 neighbours are reset.
setChipWithNear ==
    \E xy \in CellsOf(tileData), chipIndex \in (0 - 1) .. MaxChip :
        /\ getChip(tileData, xy[1], xy[2]) # NullCell
        /\ drawnTileData # Undefined
        /\ writes < MaxNearWrites
        /\ Write(xy[1], xy[2], <<getChip(tileData, xy[1], xy[2])[1], chipIndex>>)
        /\ drawnTileData' =
              [y \in 1 .. Len(drawnTileData) |->
                 [x \in 1 .. Len(drawnTileData[y]) |->
                    IF <<x - 1, y - 1>> \in Near(xy[1], xy[2])
                    THEN NotDrawn ELSE drawnTileData[y][x]]]

----------------------------------------------------------------------------
(* destroy *)

\* Surface.destroy() of image number i.
SurfaceDestroy(imgs, i) ==
    [imgs EXCEPT ![i].destroyed = TRUE, ![i].destroyCalls = @ + 1]

\* ChipSet.destroy without the test of chips.destroyed().
ChipSetDestroy_NoDestroyedTest(heap, id, destroySurface) ==
    [objs |-> [heap.objs EXCEPT ![id].chips = 0],
     imgs |-> IF /\ destroySurface
                 /\ heap.objs[id].chips # 0
              THEN SurfaceDestroy(heap.imgs, heap.objs[id].chips)
              ELSE heap.imgs]

\* ChipSet.destroy(destroySurface) of object number id: the objects and the
\* images after the call.
ChipSetDestroy(heap, id, destroySurface) ==
    [objs |-> [heap.objs EXCEPT ![id].chips = 0],
     imgs |-> IF /\ destroySurface
                 /\ heap.objs[id].chips # 0
                 /\ ~heap.imgs[heap.objs[id].chips].destroyed
              THEN SurfaceDestroy(heap.imgs, heap.objs[id].chips)
              ELSE heap.imgs]

\* The forEach of TileEx.destroy from the i-th ChipSet on: chipSet.destroy()
\* is called with no argument on those not yet destroyed.
RECURSIVE DestroyEach(_, _, _)
DestroyEach(heap, refs, i) ==
    IF i > Len(refs) THEN heap
    ELSE DestroyEach(IF ~destroyed(heap.objs[refs[i]])
                     THEN ChipSetDestroy(heap, refs[i], FALSE)
                     ELSE heap,
                     refs, i + 1)

\* TileEx.destroy going through the ChipSets whatever destroySurface is.
destroy_AlwaysCascades(destroySurface) ==
    /\ tileData # Undefined
    /\ LET heap == IF chipSets # Undefined
                   THEN DestroyEach([objs |-> chipSetObjs, imgs |-> images],
                                    chipSets, 1)
                   ELSE [objs |-> chipSetObjs, imgs |-> images]
       IN  /\ chipSetObjs' = heap.objs
           /\ images' = heap.imgs
    /\ chipSets' = Undefined
    /\ tileData' = Undefined
    /\ drawnTileData' = Undefined
    /\ redrawArea' = NoArea
    /\ cache' = NoCache
    /\ destroyedWith' = IF destroySurface THEN "true" ELSE "false"
    /\ UNCHANGED <<width, height, cached, renderedCamera, pass, rendered,
                   lastWrite, writes>>

\* TileEx.destroy(destroySurface)
destroy(destroySurface) ==
    /\ tileData # Undefined
    /\ LET heap == IF destroySurface /\ chipSets # Undefined
                   THEN DestroyEach([objs |-> chipSetObjs, imgs |-> images],
                                    chipSets, 1)
                   ELSE [objs |-> chipSetObjs, imgs |-> images]
       IN  /\ chipSetObjs' = heap.objs
           /\ images' = heap.imgs
    /\ chipSets' = Undefined
    /\ tileData' = Undefined
    /\ drawnTileData' = Undefined
    /\ redrawArea' = NoArea
    /\ cache' = NoCache
    /\ destroyedWith' = IF destroySurface THEN "true" ELSE "false"
    /\ UNCHANGED <<width, height, cached, renderedCamera, pass, rendered,
                   lastWrite, writes>>

\* chipSet.chipWidth = chipWidth; chipSet.invalidate(), of object number id.
chipSetInvalidate(id, chipWidth) ==
    /\ ~destroyed(chipSetObjs[id])
    /\ chipWidth # chipSetObjs[id].chipWidth
    /\ chipWidth <= images[chipSetObjs[id].chips].width
    /\ chipSetObjs' =
          [chipSetObjs EXCEPT
             ![id].chipWidth = chipWidth,
             ![id].chipsInRow = ChipsInRow(images[chipSetObjs[id].chips].width,
                                           chipWidth)]
    /\ UNCHANGED <<tileData, chipSets, images, drawnTileData, redrawArea, width,
                   height, cached, renderedCamera, cache, pass, rendered,
                   destroyedWith, lastWrite, writes>>

\* A call of ChipSet.destroy(destroySurface) on one of the ChipSet objects.
chipSetDestroy(id, destroySurface) ==
    /\ LET heap == ChipSetDestroy([objs |-> chipSetObjs, imgs |-> images],
                                  id, destroySurface)
       IN  /\ chipSetObjs' = heap.objs
           /\ images' = heap.imgs
    /\ UNCHANGED <<tileData, chipSets, drawnTileData, redrawArea, width, height,
                   cached, renderedCamera, cache, pass, rendered, destroyedWith,
                   lastWrite, writes>>

----------------------------------------------------------------------------
(* The entities of the model *)

\* new ChipSet({src, tileWidth, tileHeight}) over image number src.
NewChipSet(kind, src, imageWidth, chipWidth, chipHeight) ==
    [kind |-> kind, chips |-> src, chipWidth |-> chipWidth,
     chipHeight |-> chipHeight,
     chipsInRow |-> ChipsInRow(imageWidth, chipWidth)]

NewImage(w, h) == [width |-> w, height |-> h, destroyed |-> FALSE, destroyCalls |-> 0]

\* Three images: a sheet of tile-sized chips, a sheet of chips one pixel
\* larger than the tile, and an auto-tile sheet of 5 rows.
Sheets ==
    << NewImage(2 * tileWidth, 2 * tileHeight),
       NewImage(2 * (tileWidth + 1), 2 * (tileHeight + 1)),
       NewImage(2 * tileWidth, 5 * tileHeight) >>

\* chipSets of a map of plain chips: chipset 0 of the tile size, chipset 1
\* one pixel larger.
PlainChipSets ==
    << NewChipSet("plain", 1, Sheets[1].width, tileWidth, tileHeight),
       NewChipSet("plain", 2, Sheets[2].width, tileWidth + 1, tileHeight + 1) >>

\* chipSets of a map of auto-tiles.
WolfChipSets ==
    << NewChipSet("wolf", 3, Sheets[3].width, tileWidth, tileHeight) >>

\* A grid of two rows, the second shorter than the first, with a null cell.
Grids ==
    { << << <<0, 0>>, <<0, 1>>, NullCell >>, << <<1, 0>> >> >> }

Area(x, y, w, h) == [set |-> TRUE, x |-> x, y |-> y, width |-> w, height |-> h]

\* redrawArea: none; the right column, whose left edge touches column 0;
\* and a rectangle right of column 0 whose top edge touches row 0.
Areas ==
    { NoArea,
      Area(tileWidth, 0, tileWidth, 2 * tileHeight),
      Area(tileWidth + 1, tileHeight, tileWidth, tileHeight) }

\* camera of renderSelf: none (undefined) or a g.Camera.
Cameras == {"undefined", "camera"}

\* new TileEx(params) with ChipSets over the images imgs.
ConstructOver(imgs, grids, sets, areas) ==
    /\ tileData \in grids
    /\ chipSets = [i \in 1 .. Len(sets) |-> i]
    /\ chipSetObjs = sets
    /\ images = imgs
    /\ drawnTileData = Undefined
    /\ redrawArea \in areas
    /\ width = Half * tileWidth * Len(tileData[1])
    /\ height = Half * tileHeight * Len(tileData)
    /\ cached = FALSE
    /\ renderedCamera = "undefined"
    /\ cache = NoCache
    /\ pass = NoPass
    /\ rendered = Undefined
    /\ destroyedWith = "none"
    /\ lastWrite = NoWrite
    /\ writes = 0

\* new TileEx(params): the constructor.
Construct(grids, sets, areas) == ConstructOver(Sheets, grids, sets, areas)

Init == Construct(Grids, PlainChipSets, Areas)

\* Grids of differing shapes, every cell chip 0 of chipset 0.
ShapeGrids ==
    { << << <<0, 0>>, <<0, 0>> >>, << <<0, 0>> >> >>,
      << << <<0, 0>> >>, << <<0, 0>>, <<0, 0>> >> >>,
      << << <<0, 0>> >> >> }

InitCache == Construct(ShapeGrids, PlainChipSets, {NoArea})

\* 3 x 3 grids of one auto-tile ChipSet, every cell with the same chip.
WolfGrids ==
    { [y \in 1 .. 3 |-> [x \in 1 .. 3 |-> <<0, k>>]] : k \in 0 .. MaxChip }

InitWolf == Construct(WolfGrids, WolfChipSets, {NoArea})

\* Three ChipSets, the first two over the same image.
SharedChipSets ==
    << NewChipSet("plain", 1, Sheets[1].width, tileWidth, tileHeight),
       NewChipSet("plain", 1, Sheets[1].width, tileWidth, tileHeight),
       NewChipSet("plain", 2, Sheets[2].width, tileWidth + 1, tileHeight + 1) >>

InitDestroy == Construct(Grids, SharedChipSets, Areas)

\* Two auto-tile ChipSets over the same sheet.
AutoChipSets ==
    << NewChipSet("wolf", 3, Sheets[3].width, tileWidth, tileHeight),
       NewChipSet("wolf", 3, Sheets[3].width, tileWidth, tileHeight) >>

\* The cells of a map of auto-tiles: a chip, no chip, a chip of the other
\* ChipSet, null.
AutoCells == { <<0, 0>>, <<0, 0 - 1>>, <<1, 0>>, NullCell }

AutoRows == UNION { [1 .. n -> AutoCells] : n \in 1 .. MaxRowLen }

\* Every grid of two rows of such cells, the rows of any length.
AutoGrids == { <<a, b>> : a \in AutoRows, b \in AutoRows }

InitAuto == Construct(AutoGrids, AutoChipSets, {NoArea})

\* Two rows of plain chips, the first with chips of any index.
SheetGrids ==
    { << << <<0, a>>, <<0, b>> >>, << <<0, 0>> >> >> : a, b \in 0 .. MaxSheetChip }

\* A map over one ChipSet of chips of any size, over an image of any width
\* that holds at least one chip.
InitSheet ==
    \E chipWidth \in 1 .. MaxChipSide, chipHeight \in 1 .. MaxChipSide :
        \E imageWidth \in chipWidth .. MaxSheetWidth :
            ConstructOver(<< NewImage(imageWidth, (MaxSheetChip + 1) * chipHeight) >>,
                          SheetGrids,
                          << NewChipSet("plain", 1, imageWidth, chipWidth, chipHeight) >>,
                          {NoArea})

\* renderSelf of a scene drawn without a camera.
render_Self == renderSelf("undefined")

\* renderSelf of a scene drawn now with, now without a camera.
render_Camera == \E camera \in Cameras : renderSelf(camera)

Next ==
    \/ render_Self
    \/ invalidate
    \/ setChip
    \/ setChipSet

Spec == Init /\ [][Next]_vars

\* The cache under changes of the size of the entity and of the camera.
NextCache ==
    \/ render_Camera
    \/ invalidate
    \/ resize

SpecCache == InitCache /\ [][NextCache]_vars

\* A map of auto-tiles changed through setChipWithNear.
NextWolf ==
    \/ render_Self
    \/ setChipWithNear

SpecWolf == InitWolf /\ [][NextWolf]_vars

\* Maps of auto-tiles of every shape, rendered and invalidated.
NextAuto ==
    \/ render_Self
    \/ invalidate

SpecAuto == InitAuto /\ [][NextAuto]_vars

chipSet_invalidate ==
    \E id \in 1 .. Len(chipSetObjs), chipWidth \in 1 .. MaxChipSide :
        chipSetInvalidate(id, chipWidth)

\* Maps over chip images of every size, the chip width changing.
NextSheet ==
    \/ render_Self
    \/ invalidate
    \/ chipSet_invalidate

SpecSheet == InitSheet /\ [][NextSheet]_vars

chipSet_destroy ==
    \E id \in 1 .. Len(chipSetObjs), destroySurface \in BOOLEAN :
        chipSetDestroy(id, destroySurface)

tile_destroy == \E destroySurface \in BOOLEAN : destroy(destroySurface)

\* The life of a TileEx and its ChipSets up to their destruction.
NextDestroy ==
    \/ render_Self
    \/ invalidate
    \/ chipSet_destroy
    \/ tile_destroy

SpecDestroy == InitDestroy /\ [][NextDestroy]_vars

----------------------------------------------------------------------------
(* Vocabulary of the properties *)

\* A step in which renderSelf ran renderCache to its end: only renderSelf
\* sets the Cached flag or replaces _renderedCamera.
PassStep == cached' /\ (~cached \/ renderedCamera' # renderedCamera)

\* The last renderSelf ran renderCache to its end (no "Invalid chipset").
LastPassCompleted == pass.ran /\ ~pass.threw

\* The entry of a log for cell (x, y).
LogAt(log, x, y) == CHOOSE e \in {log[i] : i \in 1 .. Len(log)} : e.x = x /\ e.y = y

\* Cell (x, y) of td names a ChipSet of sets and a chip of it.
Drawable(td, sets, x, y) ==
    /\ getChip(td, x, y) # NullCell
    /\ getChip(td, x, y)[1] >= 0
    /\ getChip(td, x, y)[1] < Len(sets)
    /\ getChip(td, x, y)[2] >= 0

\* Every cell of td is null or names a ChipSet of sets.
AllValid(td, sets) ==
    \A xy \in CellsOf(td) :
        \/ getChip(td, xy[1], xy[2]) = NullCell
        \/ /\ getChip(td, xy[1], xy[2])[1] >= 0
           /\ getChip(td, xy[1], xy[2])[1] < Len(sets)

\* The rectangle [dx, dx + w) x [dy, dy + h) and the area have a point in common.
Intersects(area, dx, dy, w, h) ==
    /\ dx < area.x + area.width /\ area.x < dx + w
    /\ dy < area.y + area.height /\ area.y < dy + h

\* The pixels a list of drawImage calls writes.
Covered(blits, p) ==
    \E i \in 1 .. Len(blits) :
        /\ blits[i].dx <= p[1] /\ p[1] < blits[i].dx + blits[i].w
        /\ blits[i].dy <= p[2] /\ p[2] < blits[i].dy + blits[i].h

\* The cells at which two grids of the same shape differ.
Differing(a, b) == {xy \in CellsOf(b) : getChip(a, xy[1], xy[2]) # getChip(b, xy[1], xy[2])}

\* What a pass over td draws on a blank surface with the pixels of px and
\* nothing recorded as drawn.
FromScratch(td, sets, area, px) ==
    renderCache([tileData |-> td, chipSets |-> sets, redrawArea |-> area],
                FreshDrawn(td), px).pixels

----------------------------------------------------------------------------
(* C1: a pass that follows a completed pass, over a grid unchanged since   *)
(* that pass and on the same cache surface, issues no drawImage.           *)

C1_Idempotent ==
    [][(PassStep /\ LastPassCompleted /\ rendered = tileData /\ ~pass'.isNew)
        => BlitsOf(pass'.log) = <<>>]_vars

\* A pass on the kept cache of a grid never written to, with a drawn cell
\* in it, that issued nothing.
C1_Witness ==
    /\ pass.ran /\ ~pass.threw /\ ~pass.isNew /\ writes = 0
    /\ \E xy \in CellsOf(tileData) :
          /\ Drawable(tileData, ChipSetList, xy[1], xy[2])
          /\ drawnTileData[xy[2] + 1][xy[1] + 1] = getChip(tileData, xy[1], xy[2])
          /\ LogAt(pass.log, xy[1], xy[2]).ret = "false"
    /\ BlitsOf(pass.log) = <<>>

(* C2: a pass on the kept cache leaves every pixel it does not draw as it  *)
(* was: the cache is not cleared as a whole.                               *)

C2_KeepsUndrawn ==
    [][(PassStep /\ cache.exists /\ ~pass'.isNew)
        => \A p \in DOMAIN cache.pixels :
              ~Covered(BlitsOf(pass'.log), p) => cache'.pixels[p] = cache.pixels[p]]_vars

(* C3: after a change, invalidation and a completed pass (no redrawArea,   *)
(* every chipSetIndex valid) the cache shows what a pass over the current  *)
(* tileData draws on a blank surface, if it did so before the change.      *)

C3_UpToDate ==
    [][(/\ PassStep
        /\ rendered # tileData
        /\ ~redrawArea.set
        /\ AllValid(tileData, ChipSetList)
        /\ rendered # Undefined => (/\ AllValid(rendered, ChipSetList)
                                    /\ cache.pixels =
                                         FromScratch(rendered, ChipSetList, redrawArea,
                                                     cache.pixels)))
        => cache'.pixels = FromScratch(tileData', Deref(chipSets', chipSetObjs'), redrawArea',
                                       cache'.pixels)]_vars

\* The drawImage of chip k of the plain ChipSet cs for cell (x, y).
ExpectedBlit(cs, k, x, y) ==
    [src |-> cs.chips,
     sx  |-> (k % (images[cs.chips].width \div cs.chipWidth)) * cs.chipWidth,
     sy  |-> (k \div (images[cs.chips].width \div cs.chipWidth)) * cs.chipHeight,
     w   |-> cs.chipWidth,
     h   |-> cs.chipHeight,
     dx  |-> (x + 1) * tileWidth - cs.chipWidth,
     dy  |-> (y + 1) * tileHeight - cs.chipHeight]

\* The destination of chips of cs at cell (x, y) has a point in redrawArea.
Reached(cs, x, y) ==
    redrawArea.set =>
        Intersects(redrawArea, (x + 1) * tileWidth - cs.chipWidth,
                   (y + 1) * tileHeight - cs.chipHeight, cs.chipWidth, cs.chipHeight)

\* The last pass completed and cell xy is the only one changed since, and
\* only in its chip index, from one non-negative value to another.
OnlyChipChanged(xy) ==
    /\ LastPassCompleted
    /\ Differing(rendered, tileData) = {xy}
    /\ getChip(rendered, xy[1], xy[2])[1] = getChip(tileData, xy[1], xy[2])[1]
    /\ getChip(rendered, xy[1], xy[2])[2] >= 0
    /\ Drawable(tileData, ChipSetList, xy[1], xy[2])
    /\ ChipSetList[getChip(tileData, xy[1], xy[2])[1] + 1].kind = "plain"
    /\ Reached(ChipSetList[getChip(tileData, xy[1], xy[2])[1] + 1], xy[1], xy[2])

(* C4: on a grid rendered before, after the chip index of exactly one     *)
(* cell was changed from a non-negative value to another one, the next     *)
(* pass issues exactly one drawImage: the source rectangle of the new chip *)
(* of the plain ChipSet, to the destination of that cell; every other cell *)
(* returns false.  The cell is one the redrawArea, if set, reaches.        *)

C4_OneBlit ==
    [][\A xy \in CellsOf(tileData) :
        (PassStep /\ ~pass'.isNew /\ OnlyChipChanged(xy))
        => /\ BlitsOf(pass'.log) =
                << ExpectedBlit(ChipSetList[getChip(tileData, xy[1], xy[2])[1] + 1],
                                getChip(tileData, xy[1], xy[2])[2], xy[1], xy[2]) >>
           /\ LogAt(pass'.log, xy[1], xy[2]).ret = "true"
           /\ \A o \in CellsOf(tileData) \ {xy} :
                 LogAt(pass'.log, o[1], o[2]).ret = "false"]_vars

\* After one write, of another non-negative chip index, to a rendered grid
\* a pass has run that issued one drawImage.
C4_Witness ==
    /\ cached /\ pass.ran /\ ~pass.isNew /\ writes = 1
    /\ lastWrite.old[1] = lastWrite.new[1]
    /\ lastWrite.old[2] >= 0 /\ lastWrite.new[2] >= 0
    /\ Len(BlitsOf(pass.log)) = 1
    /\ LogAt(pass.log, lastWrite.x, lastWrite.y).ret = "true"

(* C5: with redrawArea set, a cell whose destination rectangle has no      *)
(* point in common with it is not drawn: render returns false and issues   *)
(* no drawImage, also on the first pass, when nothing is recorded as drawn.*)

C5_OutsideNotDrawn ==
    [][(PassStep /\ redrawArea.set)
        => \A xy \in CellsOf(tileData) :
             (/\ Drawable(tileData, ChipSetList, xy[1], xy[2])
              /\ ~Reached(ChipSetList[getChip(tileData, xy[1], xy[2])[1] + 1],
                          xy[1], xy[2]))
             => /\ LogAt(pass'.log, xy[1], xy[2]).ret = "false"
                /\ LogAt(pass'.log, xy[1], xy[2]).blits = <<>>]_vars

(* C6: a renderSelf with another camera than the previous call redraws     *)
(* everything: every cell with a ChipSet and a non-negative chip (that the *)
(* redrawArea, if set, reaches) is drawn in that pass.                     *)

C6_CameraRedrawsAll ==
    [][(PassStep /\ renderedCamera' # renderedCamera)
        => \A xy \in CellsOf(tileData) :
             (/\ Drawable(tileData, ChipSetList, xy[1], xy[2])
              /\ Reached(ChipSetList[getChip(tileData, xy[1], xy[2])[1] + 1],
                         xy[1], xy[2]))
             => LogAt(pass'.log, xy[1], xy[2]).ret = "true"]_vars

\* n is Math.ceil of w half pixels.
IsCeil(n, w) == n * Half >= w /\ (n - 1) * Half < w

(* C7: a renderSelf that runs a pass and finds no cache, or one narrower   *)
(* or lower than ceil(width) x ceil(height), creates a cache of that size, *)
(* destroys the old one at most once, and starts the pass with a shadow    *)
(* array of the shape of tileData holding [-1, -1] everywhere.             *)

C7_NewCache ==
    [][(/\ PassStep
        /\ \/ ~cache.exists
           \/ cache.width * Half < width
           \/ cache.height * Half < height)
        => /\ pass'.isNew
           /\ cache'.exists
           /\ IsCeil(cache'.width, width) /\ IsCeil(cache'.height, height)
           /\ DOMAIN cache'.pixels = Pixels(cache'.width, cache'.height)
           /\ pass'.destroyCalls = (IF cache.exists THEN 1 ELSE 0)
           /\ Len(pass'.drawnAtStart) = Len(tileData)
           /\ \A y \in 1 .. Len(tileData) :
                 /\ Len(pass'.drawnAtStart[y]) = Len(tileData[y])
                 /\ \A x \in 1 .. Len(tileData[y]) :
                       pass'.drawnAtStart[y][x] = NotDrawn]_vars

\* A cache was replaced for an entity of a width that is no whole number of
\* pixels, over a grid whose rows differ in length.
C7_Witness ==
    /\ cached /\ pass.ran /\ pass.isNew /\ pass.destroyCalls = 1
    /\ width % Half # 0
    /\ Len(tileData) = 2 /\ Len(tileData[1]) # Len(tileData[2])
    /\ cache.width * Half > width

\* Cell xy is recorded as drawn with ChipSet a and now names ChipSet b # a.
ChipSetChanged(xy) ==
    /\ drawnTileData # Undefined
    /\ Drawable(tileData, ChipSetList, xy[1], xy[2])
    /\ Drawable(drawnTileData, ChipSetList, xy[1], xy[2])
    /\ getChip(drawnTileData, xy[1], xy[2])[1] # getChip(tileData, xy[1], xy[2])[1]
    /\ getChip(drawnTileData, xy[1], xy[2])[2] = getChip(tileData, xy[1], xy[2])[2]
    /\ Reached(ChipSetList[getChip(tileData, xy[1], xy[2])[1] + 1], xy[1], xy[2])

(* C8: a cell drawn with one ChipSet whose chipSetIndex is then changed to *)
(* another valid one, the non-negative chipIndex staying, is drawn again   *)
(* by the next pass, with the new ChipSet.                                 *)

C8_ChipSetChangeRedraws ==
    [][\A xy \in CellsOf(tileData) :
        (PassStep /\ ~pass'.isNew /\ ChipSetChanged(xy))
        => /\ LogAt(pass'.log, xy[1], xy[2]).ret = "true"
           /\ LogAt(pass'.log, xy[1], xy[2]).blits =
                << ExpectedBlit(ChipSetList[getChip(tileData, xy[1], xy[2])[1] + 1],
                                getChip(tileData, xy[1], xy[2])[2], xy[1], xy[2]) >>
           /\ getChip(drawnTileData', xy[1], xy[2]) = getChip(tileData, xy[1], xy[2])]_vars

\* After one write, of another valid chipSetIndex, to a rendered grid a
\* pass has run that drew the cell from the image of the new ChipSet.
C8_Witness ==
    /\ cached /\ pass.ran /\ ~pass.isNew /\ writes = 1
    /\ lastWrite.old[2] = lastWrite.new[2] /\ lastWrite.new[2] >= 0
    /\ lastWrite.old[1] >= 0 /\ lastWrite.old[1] < Len(ChipSetList)
    /\ lastWrite.new[1] >= 0 /\ lastWrite.new[1] < Len(ChipSetList)
    /\ lastWrite.old[1] # lastWrite.new[1]
    /\ LogAt(pass.log, lastWrite.x, lastWrite.y).ret = "true"
    /\ LogAt(pass.log, lastWrite.x, lastWrite.y).blits[1].src =
           ChipSetList[lastWrite.new[1] + 1].chips

Centre == <<1, 1>>

\* The grid was rendered full and only its centre was cleared since.
CentreCleared ==
    /\ Len(tileData) = 3 /\ \A y \in 1 .. 3 : Len(tileData[y]) = 3
    /\ rendered # Undefined
    /\ \A xy \in CellsOf(rendered) :
          /\ getChip(rendered, xy[1], xy[2])[1] = getChip(rendered, 1, 1)[1]
          /\ getChip(rendered, xy[1], xy[2])[2] >= 0
    /\ ChipSetList[getChip(rendered, 1, 1)[1] + 1].kind = "wolf"
    /\ Differing(rendered, tileData) = {Centre}
    /\ getChip(tileData, 1, 1)[1] = getChip(rendered, 1, 1)[1]
    /\ getChip(tileData, 1, 1)[2] < 0
    /\ lastWrite.x = 1 /\ lastWrite.y = 1

\* The offset of rule: 1 for the vertical neighbour, 2 for the horizontal,
\* 4 when the diagonal one is connected besides both.
OffsetRule(v, h, d) ==
    IF v /\ h THEN (IF d THEN 4 ELSE 3)
    ELSE (IF v THEN 1 ELSE 0) + (IF h THEN 2 ELSE 0)

\* A cell of the 3 x 3 grid other than the centre.
Ring(x, y) == x \in 0 .. 2 /\ y \in 0 .. 2 /\ <<x, y>> # Centre

\* The offset a drawImage of quadrant (i, j) of chip k of cs was given.
OffsetOf(b, cs, k, i, j) ==
    5 * ((b.sx - i * (cs.chipWidth \div 2)) \div cs.chipWidth)
    + ((b.sy - j * (cs.chipHeight \div 2)) \div cs.chipHeight) - k

(* C9: in a 3 x 3 grid of one auto-tile ChipSet, all chips non-negative   *)
(* and rendered, after the centre was cleared through setChipWithNear the  *)
(* next pass draws all 8 neighbours, each quadrant with the offset of a    *)
(* centre that is not connected.                                           *)

C9_NeighboursRedrawn ==
    [][(PassStep /\ ~pass'.isNew /\ CentreCleared)
        => \A n \in Near(1, 1) \ {Centre} :
             LET e == LogAt(pass'.log, n[1], n[2])
                 cs == ChipSetList[getChip(tileData, n[1], n[2])[1] + 1]
                 k == getChip(tileData, n[1], n[2])[2]
             IN  /\ e.ret = "true"
                 /\ Len(e.blits) = 4
                 /\ \A i \in {0, 1}, j \in {0, 1} :
                       OffsetOf(e.blits[2 * i + j + 1], cs, k, i, j) =
                         OffsetRule(Ring(n[1], n[2] + 2 * j - 1),
                                    Ring(n[1] + 2 * i - 1, n[2]),
                                    Ring(n[1] + 2 * i - 1, n[2] + 2 * j - 1))]_vars

\* The pass after the clearing of the centre has run and drew 8 cells.
C9_Witness ==
    /\ cached /\ pass.ran /\ ~pass.isNew /\ writes = 1
    /\ lastWrite.x = 1 /\ lastWrite.y = 1
    /\ lastWrite.old[2] >= 0 /\ lastWrite.new[2] < 0
    /\ Len(BlitsOf(pass.log)) = 4 * 8
    /\ \A n \in Near(1, 1) \ {Centre} : LogAt(pass.log, n[1], n[2]).ret = "true"

(* C10: TileEx.destroy(true) releases the images: after it every ChipSet   *)
(* of chipSets reports destroyed() and the image each one held has had     *)
(* destroy() called on it.                                                 *)

C10_DestroyReleasesImages ==
    [][(tileData # Undefined /\ tileData' = Undefined /\ destroyedWith' = "true")
        => \A i \in 1 .. Len(chipSets) :
             /\ destroyed(chipSetObjs'[chipSets[i]])
             /\ ~destroyed(chipSetObjs[chipSets[i]])
                  => images'[chipSetObjs[chipSets[i]].chips].destroyCalls > 0]_vars

(* C11: TileEx.destroy with destroySurface false leaves every ChipSet and  *)
(* every image as it was (no ChipSet becomes destroyed, no image has       *)
(* destroy() called), and clears chipSets, tileData, _drawnTileData and    *)
(* redrawArea of the TileEx.                                               *)

C11_PartialDestroyKeepsChipSets ==
    [][(tileData # Undefined /\ tileData' = Undefined /\ destroyedWith' = "false")
        => /\ chipSetObjs' = chipSetObjs
           /\ images' = images
           /\ \A id \in 1 .. Len(chipSetObjs) :
                 destroyed(chipSetObjs'[id]) = destroyed(chipSetObjs[id])
           /\ chipSets' = Undefined
           /\ drawnTileData' = Undefined
           /\ redrawArea' = NoArea]_vars

\* A rendered TileEx was destroyed with false while all
\* its ChipSets were alive, and they still are.
C11_Witness ==
    /\ destroyedWith = "false" /\ tileData = Undefined /\ chipSets = Undefined
    /\ pass.ran /\ rendered # Undefined
    /\ \A id \in 1 .. Len(chipSetObjs) :
          /\ ~destroyed(chipSetObjs[id])
          /\ ~images[chipSetObjs[id].chips].destroyed

(* C12: a call of ChipSet.destroy leaves the ChipSet destroyed(); on a     *)
(* ChipSet already destroyed() it changes nothing; the destroy() of an     *)
(* image is called only with destroySurface true, by the ChipSet holding   *)
(* it, on an image not yet destroyed, and so at most once per image.       *)

C12_DestroyOnce ==
    [][\A id \in 1 .. Len(chipSetObjs), destroySurface \in BOOLEAN :
        chipSetDestroy(id, destroySurface)
        => /\ destroyed(chipSetObjs'[id])
           /\ destroyed(chipSetObjs[id]) => (chipSetObjs' = chipSetObjs /\ images' = images)
           /\ \A i \in 1 .. Len(images) :
                 /\ images'[i].destroyCalls <= 1
                 /\ images'[i].destroyCalls # images[i].destroyCalls
                      => /\ destroySurface
                         /\ chipSetObjs[id].chips = i
                         /\ ~images[i].destroyed
                         /\ images'[i].destroyed]_vars

\* Both ChipSets over the shared image were destroyed and the image had
\* destroy() called once.
C12_Witness ==
    /\ destroyed(chipSetObjs[1]) /\ destroyed(chipSetObjs[2])
    /\ images[1].destroyed /\ images[1].destroyCalls = 1

\* A step of renderSelf that ran renderCache, to its end or to a throw.
RanPass == render_Self /\ pass'.ran

\* The shadow array the pass of the next renderSelf starts with.
ShadowAtStart ==
    IF IsNew(cache, width, height) THEN FreshDrawn(tileData) ELSE drawnTileData

\* The i-th cell of td, in the order of renderCache, names a ChipSet that
\* sets does not have.
InvalidAt(td, sets, i) ==
    /\ getChip(td, Coords(td)[i][1], Coords(td)[i][2]) # NullCell
    /\ getChip(td, Coords(td)[i][1], Coords(td)[i][2])[1] >= Len(sets)

\* No cell before the i-th names a ChipSet that sets does not have.
ReachedInPass(td, sets, i) == \A j \in 1 .. i - 1 : ~InvalidAt(td, sets, j)

(* C13: render of a cell that is not null and whose chipSetIndex is >= 0   *)
(* with no entry in chipSets throws "Invalid chipset" and issues no        *)
(* drawImage, whatever its chipIndex and its shadow entry: the pass ends   *)
(* at the first such cell.                                                 *)

C13_InvalidChipSetThrows ==
    [][RanPass
        => \A i \in 1 .. Len(Coords(tileData)) :
             (InvalidAt(tileData, ChipSetList, i) /\ ReachedInPass(tileData, ChipSetList, i))
             => /\ pass'.threw
                /\ Len(pass'.log) = i
                /\ pass'.log[i] = Outcome(Coords(tileData)[i][1], Coords(tileData)[i][2],
                                          "throw", <<>>)
                /\ BlitsOf(pass'.log) = BlitsOf(SubSeq(pass'.log, 1, i - 1))]_vars

\* A pass threw at a cell with a negative chipIndex and a shadow entry of a
\* drawn chip, whose chipSetIndex was written last.
C13_Witness ==
    /\ pass.ran /\ pass.threw /\ ~cached
    /\ lastWrite.new # <<>> /\ lastWrite.new[1] >= Len(ChipSetList)
    /\ lastWrite.old[1] # lastWrite.new[1]
    /\ pass.log[Len(pass.log)].x = lastWrite.x /\ pass.log[Len(pass.log)].y = lastWrite.y
    /\ lastWrite.new[2] < 0
    /\ getChip(drawnTileData, lastWrite.x, lastWrite.y) # NotDrawn

(* C14: render of a cell with a negative chipSetIndex returns false: no    *)
(* throw, no drawImage, no change of the pixels, the shadow entry of the   *)
(* cell as it was at the start of the pass; the pass goes on with the      *)
(* cells that follow.                                                      *)

C14_NegativeChipSetSkipped ==
    [][RanPass
        => \A i \in 1 .. Len(Coords(tileData)) :
             LET x == Coords(tileData)[i][1]
                 y == Coords(tileData)[i][2]
                 after == render(Self, [r |-> NewCursor, drawn |-> drawnTileData',
                                        pixels |-> cache'.pixels, log |-> <<>>], x, y)
             IN  (/\ getChip(tileData, x, y) # NullCell
                  /\ getChip(tileData, x, y)[1] < 0
                  /\ ReachedInPass(tileData, ChipSetList, i))
                 => /\ Len(pass'.log) >= i
                    /\ pass'.log[i] = Outcome(x, y, "false", <<>>)
                    /\ getChip(drawnTileData', x, y) = getChip(ShadowAtStart, x, y)
                    /\ i < Len(Coords(tileData)) => Len(pass'.log) > i
                    /\ after.pixels = cache'.pixels
                    /\ after.drawn = drawnTileData']_vars

\* A cell drawn before was given a negative chipSetIndex, and the pass
\* after that went over it to the last cell, leaving its shadow entry.
C14_Witness ==
    /\ pass.ran /\ ~pass.threw /\ ~pass.isNew /\ cached
    /\ lastWrite.new # <<>> /\ lastWrite.new[1] < 0
    /\ lastWrite.old[1] >= 0 /\ lastWrite.old[2] >= 0
    /\ getChip(drawnTileData, lastWrite.x, lastWrite.y) = lastWrite.old
    /\ <<lastWrite.x, lastWrite.y>> # Coords(tileData)[Len(Coords(tileData))]
    /\ Len(pass.log) = Len(Coords(tileData))
    /\ LogAt(pass.log, lastWrite.x, lastWrite.y).ret = "false"

(* C19: after a completed pass without redrawArea the shadow entry of      *)
(* every non-null cell with a ChipSet of chipSets is the value of the cell *)
(* when its chipIndex is non-negative, and [-1, -1] when it is negative.   *)

C19_ShadowFollowsCells ==
    [][(PassStep /\ ~redrawArea.set)
        => \A xy \in CellsOf(tileData) :
             (/\ getChip(tileData, xy[1], xy[2]) # NullCell
              /\ getChip(tileData, xy[1], xy[2])[1] >= 0
              /\ getChip(tileData, xy[1], xy[2])[1] < Len(ChipSetList))
             => getChip(drawnTileData', xy[1], xy[2]) =
                  (IF getChip(tileData, xy[1], xy[2])[2] >= 0
                   THEN getChip(tileData, xy[1], xy[2]) ELSE NotDrawn)]_vars

\* The i-th cell of tileData is the first with no ChipSet of chipSets.
Offending(i) ==
    /\ InvalidAt(tileData, ChipSetList, i)
    /\ ReachedInPass(tileData, ChipSetList, i)

\* The shadow entry of the j-th cell of tileData in the shadow array drawn.
ShadowOf(drawn, j) == getChip(drawn, Coords(tileData)[j][1], Coords(tileData)[j][2])

(* C20: Cached is set by a renderSelf whose pass went over every cell with *)
(* no throw, and by nothing else; a renderSelf of a TileEx that is not     *)
(* Cached runs a pass.  A pass in which render throws leaves               *)
(* the TileEx not Cached, leaves the shadow entries of the cells after the *)
(* offending one as they were at the start of the pass, and the ones of    *)
(* the cells before it as the pass wrote them: the value of the cell where *)
(* render returned true, the entry at the start where it returned false.   *)

C20_CachedOnlyWhenCompleted ==
    [][/\ (~cached /\ cached')
          => /\ RanPass
             /\ Len(pass'.log) = Len(Coords(tileData))
             /\ \A k \in 1 .. Len(pass'.log) : pass'.log[k].ret # "throw"
       /\ (render_Self /\ ~cached) => pass'.ran
       /\ RanPass
          => \A i \in 1 .. Len(Coords(tileData)) :
               Offending(i)
               => /\ ~cached'
                  /\ pass'.threw
                  /\ \A j \in 1 .. Len(Coords(tileData)) :
                        /\ j >= i => ShadowOf(drawnTileData', j) = ShadowOf(ShadowAtStart, j)
                        /\ j < i => ShadowOf(drawnTileData', j) =
                                       (IF pass'.log[j].ret = "true"
                                        THEN ShadowOf(tileData, j)
                                        ELSE ShadowOf(ShadowAtStart, j))]_vars

\* A pass on a kept cache drew its first cell and threw at the second,
\* with a cell after it that is recorded as drawn.
C20_Witness ==
    /\ pass.ran /\ pass.threw /\ ~pass.isNew /\ ~cached
    /\ lastWrite.new # <<>> /\ lastWrite.new[1] >= Len(ChipSetList)
    /\ lastWrite.old[1] # lastWrite.new[1]
    /\ Len(pass.log) = 2 /\ pass.log[1].ret = "true"
    /\ Len(Coords(tileData)) > 2
    /\ getChip(drawnTileData, Coords(tileData)[1][1], Coords(tileData)[1][2]) =
          getChip(tileData, Coords(tileData)[1][1], Coords(tileData)[1][2])
    /\ \E j \in 3 .. Len(Coords(tileData)) :
          /\ ShadowOf(drawnTileData, j) # NullCell
          /\ ShadowOf(drawnTileData, j) # NotDrawn

\* (x, y) is a cell of the grid td.
InGrid(td, x, y) == y >= 0 /\ y < Len(td) /\ x >= 0 /\ x < Len(td[y + 1])

\* The cell (x, y) of td is in the grid, of ChipSet c and with a chip.
IsConnected(td, x, y, c) ==
    /\ InGrid(td, x, y)
    /\ td[y + 1][x + 1] # NullCell
    /\ td[y + 1][x + 1][1] = c
    /\ td[y + 1][x + 1][2] >= 0

\* The neighbour column of quadrant column i, the neighbour row of
\* quadrant row j.
NearX(x, i) == IF i = 0 THEN x - 1 ELSE x + 1
NearY(y, j) == IF j = 0 THEN y - 1 ELSE y + 1

\* The entry e of a log is a cell drawn by an auto-tile ChipSet.
DrawnAuto(e) ==
    /\ e.ret = "true"
    /\ ChipSetList[getChip(tileData, e.x, e.y)[1] + 1].kind = "wolf"

\* The offset the drawImage of quadrant (i, j) of the entry e was given.
OffsetIn(e, i, j) ==
    OffsetOf(e.blits[2 * i + j + 1],
             ChipSetList[getChip(tileData, e.x, e.y)[1] + 1],
             getChip(tileData, e.x, e.y)[2], i, j)

(* C15: for each of its 4 quadrants WolfAutoTileChipSet.render uses the    *)
(* offset 0 with no neighbour connected, 1 with the vertical one only, 2   *)
(* with the horizontal one only, 3 with both and not the diagonal one, 4   *)
(* with all three; the diagonal one counts only besides both others, so    *)
(* the offset is in 0 .. 4.  Connected: in the grid, not null, of the      *)
(* chipSetIndex of the cell, with a chipIndex >= 0.                        *)

C15_AutoTileOffset ==
    [][RanPass
        => \A k \in 1 .. Len(pass'.log) :
             DrawnAuto(pass'.log[k])
             => LET e == pass'.log[k]
                    c == getChip(tileData, e.x, e.y)[1]
                IN  /\ Len(e.blits) = 4
                    /\ \A i \in {0, 1}, j \in {0, 1} :
                          /\ OffsetIn(e, i, j) \in 0 .. 4
                          /\ OffsetIn(e, i, j) =
                                OffsetRule(IsConnected(tileData, e.x, NearY(e.y, j), c),
                                           IsConnected(tileData, NearX(e.x, i), e.y, c),
                                           IsConnected(tileData, NearX(e.x, i),
                                                       NearY(e.y, j), c))]_vars

\* A pass drew a cell a quadrant of which has the diagonal and the
\* horizontal neighbour connected and not the vertical one, with offset 2.
C15_Witness ==
    /\ cached /\ pass.ran /\ ~pass.threw /\ writes = 0
    /\ \E k \in 1 .. Len(pass.log), i \in {0, 1}, j \in {0, 1} :
          LET e == pass.log[k]
              c == getChip(tileData, e.x, e.y)[1]
          IN  /\ DrawnAuto(e)
              /\ IsConnected(tileData, NearX(e.x, i), NearY(e.y, j), c)
              /\ IsConnected(tileData, NearX(e.x, i), e.y, c)
              /\ ~IsConnected(tileData, e.x, NearY(e.y, j), c)
              /\ OffsetIn(e, i, j) = 2

\* The coordinates around the grid td, one cell beyond it on every side.
Around(td) ==
    { <<x, y>> : x \in (0 - 1) .. MaxRowLen + 1, y \in (0 - 1) .. Len(td) + 1 }

(* C16: getChip gives null for every coordinate outside the grid (x or y   *)
(* negative, y beyond the last row, x beyond the end of row y, the rows    *)
(* being of any lengths) and the cell itself inside; a pass over a map of  *)
(* auto-tiles goes over every cell without a throw, and a neighbour        *)
(* outside the grid adds nothing to the offset of a quadrant.              *)

C16_OutsideIsNoNeighbour ==
    [][RanPass
        => /\ \A p \in Around(tileData) :
                IF InGrid(tileData, p[1], p[2])
                THEN getChip(tileData, p[1], p[2]) = tileData[p[2] + 1][p[1] + 1]
                ELSE /\ getChip(tileData, p[1], p[2]) = NullCell
                     /\ \A c \in 0 .. Len(ChipSetList) - 1 :
                           ~Connected(getChip(tileData, p[1], p[2]), c)
           /\ ~pass'.threw
           /\ Len(pass'.log) = Len(Coords(tileData))
           /\ \A k \in 1 .. Len(pass'.log), i \in {0, 1}, j \in {0, 1} :
                DrawnAuto(pass'.log[k])
                => LET e == pass'.log[k]
                       vOut == ~InGrid(tileData, e.x, NearY(e.y, j))
                       hOut == ~InGrid(tileData, NearX(e.x, i), e.y)
                       dOut == ~InGrid(tileData, NearX(e.x, i), NearY(e.y, j))
                   IN  /\ (vOut /\ hOut) => OffsetIn(e, i, j) = 0
                       /\ vOut => OffsetIn(e, i, j) \in {0, 2}
                       /\ hOut => OffsetIn(e, i, j) \in {0, 1}
                       /\ dOut => OffsetIn(e, i, j) \in 0 .. 3]_vars

\* A pass drew the last cell of a first row longer than the second: the
\* neighbour below it is beyond the end of the second row, whose last cell
\* is of the same ChipSet and has a chip.
C16_Witness ==
    /\ cached /\ pass.ran /\ ~pass.threw
    /\ Len(tileData[1]) = 2 /\ Len(tileData[2]) = 1
    /\ DrawnAuto(LogAt(pass.log, 1, 0))
    /\ ~InGrid(tileData, 1, 1)
    /\ IsConnected(tileData, 0, 1, getChip(tileData, 1, 0)[1])
    /\ IsConnected(tileData, 0, 0, getChip(tileData, 1, 0)[1])
    /\ OffsetIn(LogAt(pass.log, 1, 0), 0, 1) = 2
    /\ OffsetIn(LogAt(pass.log, 1, 0), 1, 1) = 0

\* n is the floor of a / b.
IsFloor(n, a, b) == n * b <= a /\ a < (n + 1) * b

\* The entry e of a log is a cell drawn by a plain ChipSet.
DrawnPlain(e) ==
    /\ e.ret = "true"
    /\ ChipSetList[getChip(tileData, e.x, e.y)[1] + 1].kind = "plain"

(* C17: _chipsInRow of a ChipSet over an image of width W with chips of    *)
(* width Cw (0 < Cw <= W), after its construction and after invalidate(),  *)
(* is floor(W / Cw), and ChipSet.render of chip k >= 0 issues one          *)
(* drawImage of the source rectangle ((k mod n) * Cw, floor(k / n) * Ch,   *)
(* Cw, Ch), n being floor(W / Cw), to the destination of the cell.         *)

C17_SourceRectangle ==
    [][/\ \A id \in 1 .. Len(chipSetObjs') :
            IsFloor(chipSetObjs'[id].chipsInRow,
                    images'[chipSetObjs'[id].chips].width, chipSetObjs'[id].chipWidth)
       /\ RanPass
          => \A i \in 1 .. Len(pass'.log) :
               DrawnPlain(pass'.log[i])
               => LET e == pass'.log[i]
                      cs == ChipSetList[getChip(tileData, e.x, e.y)[1] + 1]
                      k == getChip(tileData, e.x, e.y)[2]
                  IN  /\ Len(e.blits) = 1
                      /\ e.blits[1].src = cs.chips
                      /\ e.blits[1].w = cs.chipWidth /\ e.blits[1].h = cs.chipHeight
                      /\ e.blits[1].dx = DestX(cs, e.x) /\ e.blits[1].dy = DestY(cs, e.y)
                      /\ \E n \in 1 .. MaxSheetWidth, col \in 0 .. MaxSheetWidth,
                            row \in 0 .. MaxSheetChip :
                            /\ IsFloor(n, images[cs.chips].width, cs.chipWidth)
                            /\ col < n
                            /\ k = row * n + col
                            /\ e.blits[1].sx = col * cs.chipWidth
                            /\ e.blits[1].sy = row * cs.chipHeight]_vars

\* A pass drew chip 3 of a ChipSet of chips 2 wide over an image 5 wide:
\* 2 chips in a row, the chip in column 1 of row 1.
C17_Witness ==
    /\ cached /\ pass.ran /\ ~pass.threw
    /\ Len(chipSetObjs) = 1
    /\ images[1].width = 5 /\ chipSetObjs[1].chipWidth = 2
    /\ chipSetObjs[1].chipsInRow = 2
    /\ getChip(tileData, 0, 0) = <<0, 3>>
    /\ LogAt(pass.log, 0, 0).ret = "true"
    /\ LogAt(pass.log, 0, 0).blits[1].sx = 2
    /\ LogAt(pass.log, 0, 0).blits[1].sy = chipSetObjs[1].chipHeight

(* C18: every drawImage of a drawn cell (x, y) has a destination whose     *)
(* right and lower edges are those of the cell: dx + chipWidth =           *)
(* (x + 1) * tileWidth and dy + chipHeight = (y + 1) * tileHeight for      *)
(* chips of any size, and (dx, dy) = (x * tileWidth, y * tileHeight) for   *)
(* chips of the size of the tile.                                          *)

C18_RightBottomAligned ==
    [][RanPass
        => \A i \in 1 .. Len(pass'.log) :
             DrawnPlain(pass'.log[i])
             => LET e == pass'.log[i]
                    cs == ChipSetList[getChip(tileData, e.x, e.y)[1] + 1]
                IN  \A n \in 1 .. Len(e.blits) :
                      /\ e.blits[n].dx + cs.chipWidth = (e.x + 1) * tileWidth
                      /\ e.blits[n].dy + cs.chipHeight = (e.y + 1) * tileHeight
                      /\ (cs.chipWidth = tileWidth /\ cs.chipHeight = tileHeight)
                           => /\ e.blits[n].dx = e.x * tileWidth
                              /\ e.blits[n].dy = e.y * tileHeight]_vars

\* A pass drew cell (1, 0) with chips wider and lower than the tile.
C18_Witness ==
    /\ cached /\ pass.ran /\ ~pass.threw
    /\ Len(chipSetObjs) = 1
    /\ chipSetObjs[1].chipWidth > tileWidth /\ chipSetObjs[1].chipHeight < tileHeight
    /\ LogAt(pass.log, 1, 0).ret = "true"
    /\ LogAt(pass.log, 1, 0).blits[1].dx = 2 * tileWidth - chipSetObjs[1].chipWidth
    /\ LogAt(pass.log, 1, 0).blits[1].dy = tileHeight - chipSetObjs[1].chipHeight
    /\ LogAt(pass.log, 1, 0).blits[1].dx < tileWidth
    /\ LogAt(pass.log, 1, 0).blits[1].dy > 0

====
